---- MODULE Spec2Model ----
(***************************************************************************)
(* Model of the question-generation pipeline of Image_Based_Question_      *)
(* Generation: the local batch generator                                   *)
(* (enhanced_image_question_generator.py), the S3 batch generator          *)
(* (s3_enhanced_question_generator.py) and the single-image generator      *)
(* (image.py).                                                             *)
(*                                                                         *)
(* Text is a sequence of characters, one string each; a JSON scalar or object is *)
(* one token of the text that ValueOf decodes.  Ratios are percentages     *)
(* (0.25 is 25): for the catalog ratios and image counts 0..59 Python's    *)
(* round(image_count * ratio) on floats equals the half-even rounding of   *)
(* the exact quotient computed here.                                       *)
(***************************************************************************)
EXTENDS Integers, Sequences, FiniteSets, TLC

\* ------------------------------------------------------------------ bounds
MaxImages == 2        \* largest listing of a batch run
MaxRetriesArg == 3    \* largest max_retries of a direct call
MaxCount == 10        \* largest image_count of a direct call of the allocator
MaxLoopCount == 5     \* largest image_count of the allocator run step by step
MaxQuestions == 2     \* most questions the question file of the exam UIs holds
MaxHistory == 2       \* entries of exam_history after which no new exam is followed
MaxClock == 10        \* the exam UIs are followed up to this minute

\* ------------------------------------------------------- program constants
DefaultMaxRetries == 3

Difficulties == <<"Easy", "Medium", "Hard">>

\* global_difficulty_distributions, in percent, keys in dict order
global_difficulty_distributions ==
    << <<50, 30, 20>>,
       <<40, 40, 20>>,
       <<30, 40, 30>>,
       <<60, 25, 15>>,
       <<35, 35, 30>> >>

\* ---------------------------------------------------------------- helpers
Max2(a, b) == IF a >= b THEN a ELSE b

Range(s) == {s[i] : i \in 1..Len(s)}

\* [x] * n
Repeat(x, n) == [i \in 1..n |-> x]

\* seq.count(x)
Count(s, x) == Cardinality({i \in 1..Len(s) : s[i] = x})

\* random.shuffle(x): the orders x can end in
RemoveFirst(x, e) ==
    LET k == CHOOSE n \in 1..Len(x) : x[n] = e /\ \A m \in 1..(n - 1) : x[m] # e
    IN  SubSeq(x, 1, k - 1) \o SubSeq(x, k + 1, Len(x))

RECURSIVE Shuffles(_)
Shuffles(x) ==
    IF x = <<>> THEN {<<>>}
    ELSE UNION {{<<e>> \o q : q \in Shuffles(RemoveFirst(x, e))} : e \in Range(x)}

\* Python round() of num/den (den > 0): nearest integer, ties to even
PyRound(num, den) ==
    LET q == num \div den
        r == num % den
    IN  IF 2 * r > den \/ (2 * r = den /\ q % 2 = 1) THEN q + 1 ELSE q

\* max(distribution.keys(), key=lambda k: distribution[k]): first maximal key
most_common(dist) ==
    CHOOSE i \in 1..Len(dist) :
        /\ \A j \in 1..Len(dist) : dist[j] <= dist[i]
        /\ \A j \in 1..(i - 1) : dist[j] < dist[i]

\* count = max(1, round(image_count * ratio))
RawCount(image_count, pct) == Max2(1, PyRound(image_count * pct, 100))

\* the for loop over distribution.items(): difficulties.extend([difficulty] * count)
RECURSIVE ExtendAll(_, _, _)
ExtendAll(image_count, dist, i) ==
    IF i > Len(dist) THEN <<>>
    ELSE Repeat(Difficulties[i], RawCount(image_count, dist[i]))
         \o ExtendAll(image_count, dist, i + 1)

\* while len(difficulties) > image_count: difficulties.pop()
TrimMutKeepAll(l, image_count) == l

Trim(l, image_count) ==
    IF Len(l) > image_count THEN SubSeq(l, 1, image_count) ELSE l

\* while len(difficulties) < image_count: difficulties.append(most_common)
Pad(l, image_count, dist) ==
    IF Len(l) < image_count
    THEN l \o Repeat(Difficulties[most_common(dist)], image_count - Len(l))
    ELSE l

\* assign_global_difficulties before the final shuffle
AssignUnshuffled(image_count, dist) ==
    Pad(Trim(ExtendAll(image_count, dist, 1), image_count), image_count, dist)

\* ------------------------------------------------------------------- text
\* the backquote character (the string syntax has no literal for it)
Tick == "bq"
FenceJson == <<Tick, Tick, Tick, "j", "s", "o", "n">>
Fence == <<Tick, Tick, Tick>>
Whitespace == {" ", "\n"}

\* str.startswith / str.endswith
startswith(s, p) == Len(s) >= Len(p) /\ SubSeq(s, 1, Len(p)) = p
endswith(s, p) == Len(s) >= Len(p) /\ SubSeq(s, Len(s) - Len(p) + 1, Len(s)) = p

\* str.strip(): drop leading and trailing whitespace
RECURSIVE lstrip(_)
lstrip(s) == IF s # <<>> /\ s[1] \in Whitespace THEN lstrip(Tail(s)) ELSE s
RECURSIVE rstrip(_)
rstrip(s) ==
    IF s # <<>> /\ s[Len(s)] \in Whitespace THEN rstrip(SubSeq(s, 1, Len(s) - 1)) ELSE s
strip(s) == rstrip(lstrip(s))

\* response.text is None or a string; (response.text or "")
NoneText == <<"None">>
TextOrEmpty(text) == IF text = NoneText THEN <<>> ELSE text

\* the clean-up of the batch generators: strip, drop a leading ```json,
\* drop a trailing ```, strip
CleanMutNoFence(text) == strip(TextOrEmpty(text))

CleanResponse(text) ==
    LET t0 == strip(TextOrEmpty(text))
        t1 == IF startswith(t0, FenceJson) THEN SubSeq(t0, 8, Len(t0)) ELSE t0
        t2 == IF endswith(t1, Fence) THEN SubSeq(t1, 1, Len(t1) - 3) ELSE t1
    IN  strip(t2)

\* the clean-up of image.py: strip only
CleanResponseLive(text) == strip(TextOrEmpty(text))

\* ------------------------------------------------------------ JSON values
RequiredKeys == {"question_text", "image_path", "option_text",
                 "correct_answer_index", "difficulty_level", "explanation"}
OptionalKeys == {"topic", "subtopic"}

ModelPath == [form |-> "model", folder |-> 0, base |-> 0]

\* an object the model can return; a field whose key is absent holds a filler
GoodItem ==
    [isObj |-> TRUE, keys |-> RequiredKeys \cup OptionalKeys,
     optsIsList |-> TRUE, nopts |-> 4, caiIsInt |-> TRUE, cai |-> 0,
     difficulty_level |-> "Easy", image_path |-> ModelPath,
     topic |-> "Optics", subtopic |-> "Lenses", image_filename |-> 0]

BareItem(d, c) ==
    [GoodItem EXCEPT !.keys = RequiredKeys, !.difficulty_level = d, !.cai = c,
                     !.topic = "", !.subtopic = ""]

\* the JSON scalars and objects of the model's answers, by token
ValueOf ==
    [t \in {"q_easy", "q_hard", "q_cai4", "q_caistr", "q_extreme",
            "q_nocai", "q_3opts", "q_optsstr", "num"} |->
        CASE t = "q_easy" -> GoodItem
          [] t = "q_hard" -> BareItem("Hard", 3)
          [] t = "q_cai4" -> BareItem("Medium", 4)
          [] t = "q_caistr" -> [BareItem("Easy", 1) EXCEPT !.caiIsInt = FALSE]
          [] t = "q_extreme" -> BareItem("Extreme", 0)
          [] t = "q_nocai" ->
                [BareItem("Easy", 0) EXCEPT
                    !.keys = RequiredKeys \ {"correct_answer_index"}]
          [] t = "q_3opts" -> [BareItem("Easy", 0) EXCEPT !.nopts = 3]
          [] t = "q_optsstr" ->
                [BareItem("Easy", 0) EXCEPT !.optsIsList = FALSE, !.nopts = 0]
          [] t = "num" -> [BareItem("", 0) EXCEPT !.isObj = FALSE, !.keys = {}]]

ValueTokens == DOMAIN ValueOf

\* json.loads on the token grammar  value | "[" [value {"," value}] "]",
\* whitespace allowed between tokens; anything else is a JSONDecodeError
SelectNonWs(s) == SelectSeq(s, LAMBDA c : c \notin Whitespace)

IsElements(t) ==
    /\ Len(t) % 2 = 1
    /\ \A i \in 1..Len(t) :
          IF i % 2 = 1 THEN t[i] \in ValueTokens ELSE t[i] = ","

Elements(t) == [i \in 1..((Len(t) + 1) \div 2) |-> ValueOf[t[2 * i - 1]]]

JsonError == [ok |-> FALSE, isList |-> FALSE, elems |-> <<>>]

json_loads(s) ==
    LET t == SelectNonWs(s)
        inner == SubSeq(t, 2, Len(t) - 1)
    IN  IF Len(t) = 1 /\ t[1] \in ValueTokens
        THEN [ok |-> TRUE, isList |-> FALSE, elems |-> <<ValueOf[t[1]]>>]
        ELSE IF Len(t) >= 2 /\ t[1] = "[" /\ t[Len(t)] = "]"
        THEN IF inner = <<>> THEN [ok |-> TRUE, isList |-> TRUE, elems |-> <<>>]
             ELSE IF IsElements(inner)
             THEN [ok |-> TRUE, isList |-> TRUE, elems |-> Elements(inner)]
             ELSE JsonError
        ELSE JsonError

\* ---------------------------------------------------------- model answers
Bodies ==
    { <<"[", t, "]">> : t \in ValueTokens \ {"q_hard"} } \cup
    { <<"[", "]">>, <<"q_easy">>, <<"num">>, <<"[", "q_easy">>, <<"x">>, <<>> }

WrappedBodies == { <<"[", "q_hard", "]">>, <<"[", "q_easy", ",", " ", "q_hard", "]">> }

Openers == { <<>>, FenceJson \o <<"\n">>, Fence \o <<"\n">>, <<" ">> }
Closers == { <<>>, <<"\n">> \o Fence, <<"\n">> }

\* response.text: None, a bare body, or a body between an opener and a closer
ResponseTexts ==
    {NoneText} \cup Bodies \cup
    {o \o b \o c : o \in Openers, b \in WrappedBodies, c \in Closers}

\* ------------------------------------------------------------- image keys
\* an S3 key or a local path: a folder and a file name (its basename)
KeyUniverse == {[folder |-> 1, base |-> 1], [folder |-> 1, base |-> 2],
                [folder |-> 2, base |-> 1]}
LocalFiles == {[folder |-> 1, base |-> b] : b \in 1..MaxImages}

KeyLess(a, b) == a.folder < b.folder \/ (a.folder = b.folder /\ a.base < b.base)

\* sorted(keys)
sorted(S) ==
    CHOOSE q \in [1..Cardinality(S) -> S] :
        \A i, j \in 1..Cardinality(S) : i < j => KeyLess(q[i], q[j])

\* list_image_files / get_image_files: the sorted listings the store can give
Listings(scr) ==
    IF scr = "local"
    THEN {sorted({k \in LocalFiles : k.base <= n}) : n \in 0..MaxImages}
    ELSE {sorted(S) : S \in {T \in SUBSET KeyUniverse : Cardinality(T) <= MaxImages}}

\* os.path.basename
basename(key) == key.base

LocalImagePath(key) == [form |-> "basename", folder |-> 0, base |-> basename(key)]

\* generate_s3_url: https://{bucket}.s3.amazonaws.com/{key}
generate_s3_url(key) == [form |-> "s3url", folder |-> key.folder, base |-> key.base]

\* random.sample(population, k) for 0 <= k <= len(population)
Samples(population, k) ==
    {q \in [1..k -> Range(population)] : \A i, j \in 1..k : q[i] = q[j] => i = j}

\* population[:k] for any integer k
SlicePrefix(population, k) ==
    IF k >= 0
    THEN SubSeq(population, 1, IF k < Len(population) THEN k ELSE Len(population))
    ELSE SubSeq(population, 1, Max2(0, Len(population) + k))

\* ---------------------------------------------------------------- prompts
\* the catalogs of QuestionGeneratorConfig and S3QuestionGeneratorConfig
subject_contexts ==
    <<"physics teacher's perspective", "engineering student's perspective",
      "physicist's analytical viewpoint", "academic researcher's perspective",
      "practical application standpoint">>

question_styles ==
    <<"conceptual understanding", "mathematical calculation",
      "practical application", "theoretical analysis", "comparative analysis">>

analysis_approaches ==
    <<"carefully analyze the provided image",
      "examine the scientific content shown in the image",
      "study the educational material presented in the image",
      "investigate the principles illustrated in the image">>

question_count_range == <<3, 7>>

\* difficulty_variations: Easy, Medium, Hard
difficulty_variations ==
    << <<3, 1, 1>>, <<2, 2, 1>>, <<2, 1, 2>>, <<1, 3, 1>>, <<1, 2, 2>> >>

Sum3(d) == d[1] + d[2] + d[3]

\* the distribution of a randomized prompt: the variation scaled to
\* question_count, the difference put on its largest entry
ScaledDistributionMutNoFix(variation, question_count) ==
    [k \in 1..3 |-> Max2(1, PyRound(variation[k] * question_count, Sum3(variation)))]

ScaledDistribution(variation, question_count) ==
    LET total == Sum3(variation)
        scaled == [k \in 1..3 |->
                      Max2(1, PyRound(variation[k] * question_count, total))]
        max_key == most_common(scaled)
    IN  IF total = question_count THEN variation
        ELSE IF Sum3(scaled) = question_count THEN scaled
        ELSE [scaled EXCEPT ![max_key] = @ + (question_count - Sum3(scaled))]

\* the phrasing of a prompt: drawn from the catalogs, or the default one
PhrasingsMutAlwaysDrawn(rnd) ==
    {[subject_context |-> c, question_style |-> q, analysis_approach |-> a] :
        c \in Range(subject_contexts), q \in Range(question_styles),
        a \in Range(analysis_approaches)}

Phrasings(rnd) ==
    IF rnd
    THEN {[subject_context |-> c, question_style |-> q, analysis_approach |-> a] :
             c \in Range(subject_contexts), q \in Range(question_styles),
             a \in Range(analysis_approaches)}
    ELSE {[subject_context |-> "physics teacher's perspective",
           question_style |-> "conceptual understanding",
           analysis_approach |-> "analyze the provided image"]}

\* generate_randomized_prompt: the prompts it can return, by their parameters
generate_randomized_prompt(rnd, image_filename) ==
    LET dists == IF rnd
                 THEN {[question_count |-> n,
                        difficulty_dist |->
                            ScaledDistribution(difficulty_variations[v], n)] :
                          n \in question_count_range[1]..question_count_range[2],
                          v \in 1..Len(difficulty_variations)}
                 ELSE {[question_count |-> 5, difficulty_dist |-> <<2, 2, 1>>]}
    IN  {[phrasing |-> ph, question_count |-> d.question_count,
          difficulty_dist |-> d.difficulty_dist, assigned_difficulty |-> "",
          image_filename |-> image_filename] : ph \in Phrasings(rnd), d \in dists}

\* generate_single_question_prompt
generate_single_question_prompt(rnd, image_filename, assigned_difficulty) ==
    {[phrasing |-> ph, question_count |-> 1, difficulty_dist |-> <<>>,
      assigned_difficulty |-> assigned_difficulty,
      image_filename |-> image_filename] : ph \in Phrasings(rnd)}

Prompts(scr, rnd, pair) ==
    IF scr = "s3"
    THEN generate_single_question_prompt(rnd, basename(pair.key), pair.difficulty)
    ELSE generate_randomized_prompt(rnd, basename(pair.key))

\* ------------------------------------------------------------- validation
DifficultyEnum == {"Easy", "Medium", "Hard"}

HasOptions(item) == item.optsIsList /\ item.nopts = 4

\* the per-item checks of generate_questions_from_image_batch and of
\* generate_questions_from_image_live
ItemValidLocal(item) ==
    /\ item.isObj
    /\ RequiredKeys \subseteq item.keys
    /\ HasOptions(item)
    /\ item.difficulty_level \in DifficultyEnum

ValidLocal(parsed) ==
    /\ parsed.isList
    /\ \A n \in 1..Len(parsed.elems) : ItemValidLocal(parsed.elems[n])

\* the checks of generate_question_from_s3_image
ValidS3(parsed) ==
    /\ parsed.isList /\ Len(parsed.elems) = 1
    /\ parsed.elems[1].isObj
    /\ RequiredKeys \subseteq parsed.elems[1].keys
    /\ HasOptions(parsed.elems[1])

\* if "topic" not in item: item["topic"] = "Physics" (and subtopic)
BackfillMutOverwrite(item) ==
    [item EXCEPT !.keys = @ \cup OptionalKeys, !.topic = "Physics",
                 !.subtopic = "General"]

Backfill(item) ==
    [item EXCEPT !.keys = @ \cup OptionalKeys,
                 !.topic = IF "topic" \in item.keys THEN @ ELSE "Physics",
                 !.subtopic = IF "subtopic" \in item.keys THEN @ ELSE "General"]

\* the question the local generator returns for a validated item
AcceptLocal(item, key) == [Backfill(item) EXCEPT !.image_path = LocalImagePath(key)]

\* question["difficulty_level"] = assigned_difficulty when they differ
ForceDifficultyMutKeep(item, assigned_difficulty) == item

ForceDifficulty(item, assigned_difficulty) ==
    IF item.difficulty_level # assigned_difficulty
    THEN [item EXCEPT !.difficulty_level = assigned_difficulty]
    ELSE item

\* the question the S3 generator returns for a validated item
AcceptS3(item, key, assigned_difficulty) ==
    [Backfill(ForceDifficulty(item, assigned_difficulty)) EXCEPT
        !.image_path = generate_s3_url(key),
        !.keys = @ \cup {"image_filename"},
        !.image_filename = basename(key)]

\* update_image_paths of image.py
update_image_paths(data, key) ==
    [n \in 1..Len(data) |->
        IF "image_path" \in data[n].keys
        THEN [data[n] EXCEPT !.image_path = [form |-> "arg", folder |-> key.folder,
                                              base |-> key.base]]
        ELSE data[n]]

\* ------------------------------------------------------------------ state
VARIABLES
    script,         \* "local", "s3" (the batch scripts) or "live" (image.py)
    direct,         \* TRUE: one call of the generation function, no script
    randomize,      \* config.randomize
    env,            \* what the environment provides
    max_images,     \* --max-images (0 stands for None)
    listing,        \* the sorted listing of the directory or prefix
    pc,             \* "main", "loop", "exit", "returned"
    pairs,          \* the images to process, each with its assigned difficulty
    i,              \* position of the batch loop in pairs
    max_retries,    \* the max_retries the generation function runs with
    attempt,        \* loop variable of the retry loop
    response,       \* the local `response`: "unset", "none" (text is None), "text"
    log,            \* history: how each attempt of the current call ended
    all_questions,  \* all_questions of the batch
    stats,          \* processing_stats
    ret,            \* history: how the call that just finished ended
    heard,          \* history, kept for direct calls: the last answer and its parse
    saved,          \* the question file written by this run
    exit_code,      \* -1 while running
    image_count,    \* argument of assign_global_difficulties
    difficulties,   \* the list assign_global_difficulties returned
    distribution,   \* the ratio mapping a direct call of the allocator works on
    cli_max_retries,\* args.max_retries: the value of --max-retries
    for_pos,        \* assign_global_difficulties step by step: place in the for loop
    prompt,         \* history: the prompt of the last attempt; see Attempt
    sleeps,         \* history, kept for direct calls: per attempt, how it ended
                    \* and the seconds the retry loop slept after it
    temp_files,     \* direct calls: temporary files of the call still on disk
    variations,     \* config.difficulty_variations as the program holds it
    app,            \* "exam_app" or "styled" (streamlit_exam_app.py)
    page,           \* exam_app: the page chosen in the sidebar
    qfile,          \* questions.json: the list it holds, <<>> when absent
    ss,             \* st.session_state
    now,            \* time.time(), in minutes
    rerun,          \* st.rerun() was called: the script is about to run again
    shown,          \* history: what the last script run displayed
    gen             \* history: the last click of Generate Questions

vars == <<script, direct, randomize, env, max_images, listing, pc, pairs, i,
          max_retries, attempt, response, log, all_questions, stats, ret, heard,
          saved, exit_code, image_count, difficulties, distribution,
          cli_max_retries, for_pos, prompt, sleeps, temp_files, variations, app,
          page, qfile,
          ss, now, rerun, shown, gen>>

\* the state of the exam applications
uiVars == <<app, page, qfile, ss, now, rerun, shown, gen>>

\* what the batch scripts leave alone
otherVars == <<for_pos, prompt, sleeps, temp_files, variations, uiVars>>

AllBases == 1..Max2(2, MaxImages)

NoEntry == [status |-> "", key |-> [folder |-> 0, base |-> 0], question_count |-> 0,
            assigned_difficulty |-> "", generated_difficulty |-> "", error |-> ""]

NoStats == [total_images |-> 0, successful |-> 0, failed |-> 0, total_questions |-> 0,
            image_results |-> [b \in AllBases |-> NoEntry]]

NoRet == [key |-> [folder |-> 0, base |-> 0], difficulty |-> "", attempts |-> 0,
          kind |-> "", value |-> <<>>, raw |-> <<>>]

NoHeard == [text |-> <<>>, cleaned |-> <<>>, ok |-> FALSE, answered |-> FALSE]

NotSaved == [attempted |-> FALSE, written |-> FALSE, questions |-> <<>>]

\* save_results / save_json: the file holds the questions when the write works
Save(questions, save_ok) ==
    [attempted |-> TRUE, written |-> save_ok,
     questions |-> IF save_ok THEN questions ELSE <<>>]

EnvOf(scr) ==
    {e \in [dir : BOOLEAN, dotenv : BOOLEAN, api_key : BOOLEAN, aws_keys : BOOLEAN,
            s3_init : BOOLEAN] :
        /\ scr = "local" => e.aws_keys /\ e.s3_init
        /\ scr = "s3" => e.dir
        /\ scr = "live" => e.dir /\ e.aws_keys /\ e.s3_init}

GoodEnv == [dir |-> TRUE, dotenv |-> TRUE, api_key |-> TRUE, aws_keys |-> TRUE,
            s3_init |-> TRUE]

MaxImagesArgs == {0, -1, 1}

\* --max-retries: a value of the user's, or the default of the flag; the
\* user's value is followed on runs over at most one image
MaxRetriesFlags == {1, DefaultMaxRetries}

InitScript ==
    /\ script \in {"local", "s3", "live"}
    /\ direct = FALSE
    /\ randomize \in (IF script = "live" THEN {FALSE} ELSE BOOLEAN)
    /\ env \in EnvOf(script)
    /\ max_images \in (IF script = "live" THEN {0} ELSE MaxImagesArgs)
    /\ listing \in (IF script = "live" THEN {<<[folder |-> 1, base |-> 1]>>}
                    ELSE Listings(script))
    /\ pc = "main"
    /\ pairs = <<>>
    /\ max_retries = DefaultMaxRetries
    /\ image_count = 0
    /\ cli_max_retries \in (IF script = "live" \/ Len(listing) > 1
                            THEN {DefaultMaxRetries}
                            ELSE MaxRetriesFlags)

\* one call of generate_questions_from_image_batch or of
\* generate_question_from_s3_image with arguments of the caller's choice
InitDirect ==
    /\ script \in {"local", "s3"}
    /\ direct = TRUE
    /\ randomize = FALSE
    /\ env = GoodEnv
    /\ max_images = 0
    /\ listing = <<>>
    /\ pc = "loop"
    /\ \E d \in (IF script = "s3" THEN Range(Difficulties) ELSE {""}) :
          pairs = <<[key |-> [folder |-> 1, base |-> 1], difficulty |-> d]>>
    /\ max_retries \in 0..MaxRetriesArg
    /\ image_count = 0
    /\ cli_max_retries = DefaultMaxRetries

\* one call of assign_global_difficulties
InitAssign ==
    /\ script = "s3"
    /\ direct = TRUE
    /\ randomize \in BOOLEAN
    /\ env = GoodEnv
    /\ max_images = 0
    /\ listing = <<>>
    /\ pc = "assign"
    /\ pairs = <<>>
    /\ max_retries = DefaultMaxRetries
    /\ image_count \in 0..MaxCount
    /\ cli_max_retries = DefaultMaxRetries

\* one call of generate_randomized_prompt or generate_single_question_prompt
InitPrompt ==
    /\ script \in {"local", "s3"}
    /\ direct = TRUE
    /\ randomize \in BOOLEAN
    /\ env = GoodEnv
    /\ max_images = 0
    /\ listing = <<>>
    /\ pc = "prompt"
    /\ \E d \in (IF script = "s3" THEN Range(Difficulties) ELSE {""}) :
          pairs = <<[key |-> [folder |-> 1, base |-> 1], difficulty |-> d]>>
    /\ max_retries = DefaultMaxRetries
    /\ image_count = 0
    /\ cli_max_retries = DefaultMaxRetries

\* no exam application is running
\* st.session_state without a key
NoSession == <<>>
NoShown == [view |-> ""]
NoGen == [clicked |-> FALSE]

UiIdle ==
    /\ app = "" /\ page = "" /\ qfile = <<>> /\ ss = NoSession /\ now = 0
    /\ rerun = FALSE /\ shown = NoShown /\ gen = NoGen

\* no generation call has started
CallIdle ==
    /\ i = 1
    /\ attempt = 0
    /\ response = "unset"
    /\ log = <<>>
    /\ all_questions = <<>>
    /\ stats = NoStats
    /\ ret = NoRet
    /\ heard = NoHeard
    /\ saved = NotSaved
    /\ exit_code = -1
    /\ prompt = <<>>
    /\ sleeps = <<>>
    /\ temp_files = 0
    /\ variations = difficulty_variations

Init ==
    /\ InitScript \/ InitDirect \/ InitAssign \/ InitPrompt
    /\ difficulties = <<>>
    /\ distribution = <<>>
    /\ for_pos = 0
    /\ UiIdle
    /\ CallIdle

\* ---------------------------------------------------------------- scripts
Exit(code) ==
    /\ pc' = "exit"
    /\ exit_code' = code
    /\ UNCHANGED <<script, direct, randomize, env, max_images, listing, pairs, i,
                   max_retries, attempt, response, log, all_questions, stats, ret,
                   heard, saved, image_count, difficulties, distribution,
                   cli_max_retries, otherVars>>

\* the selection of process_image_directory:
\*   if config.randomize and max_images: sample when there are more images
\*   elif max_images: image_files[:max_images]
\* random.sample raises ValueError for a negative sample size
SelectionRaisesLocal ==
    randomize /\ max_images # 0 /\ Len(listing) > max_images /\ max_images < 0

SelectionsLocal ==
    IF randomize /\ max_images # 0
    THEN IF Len(listing) > max_images THEN Samples(listing, max_images) ELSE {listing}
    ELSE IF max_images # 0 THEN {SlicePrefix(listing, max_images)}
    ELSE {listing}

\* the selection of process_s3_images:
\*   if max_images and len(image_keys) > max_images: sample or image_keys[:max_images]
SelectionRaisesS3 ==
    max_images # 0 /\ Len(listing) > max_images /\ randomize /\ max_images < 0

SelectionsS3 ==
    IF max_images # 0 /\ Len(listing) > max_images
    THEN IF randomize THEN Samples(listing, max_images)
         ELSE {SlicePrefix(listing, max_images)}
    ELSE {listing}

\* assign_global_difficulties: the lists it can return for image_count images
\* random.choice of the catalog, or its first entry
DistributionChoicesMutSecond(rnd) ==
    IF rnd THEN 1..Len(global_difficulty_distributions) ELSE {2}

DistributionChoices(rnd) ==
    IF rnd THEN 1..Len(global_difficulty_distributions) ELSE {1}

\* the lists it can return once the distribution is chosen
AssignFrom(count, rnd, d) ==
    IF rnd THEN Shuffles(AssignUnshuffled(count, global_difficulty_distributions[d]))
    ELSE {AssignUnshuffled(count, global_difficulty_distributions[d])}

assign_global_difficulties(count, rnd) ==
    UNION {AssignFrom(count, rnd, d) : d \in DistributionChoices(rnd)}

StartLoop(prs) ==
    /\ pairs' = prs
    /\ stats' = [NoStats EXCEPT !.total_images = Len(prs)]
    /\ pc' = "loop"
    /\ UNCHANGED <<script, direct, randomize, env, max_images, listing, i,
                   max_retries, attempt, response, log, all_questions, ret, heard,
                   saved, exit_code, cli_max_retries, otherVars>>

\* a direct call of assign_global_difficulties
Assign ==
    /\ pc = "assign"
    /\ \E d \in DistributionChoices(randomize) :
       \E ds \in AssignFrom(image_count, randomize, d) :
          /\ difficulties' = ds
          /\ distribution' = global_difficulty_distributions[d]
    /\ pc' = "returned"
    /\ UNCHANGED <<script, direct, randomize, env, max_images, listing, pairs, i,
                   max_retries, attempt, response, log, all_questions, stats, ret,
                   heard, saved, exit_code, image_count, cli_max_retries, otherVars>>

\* enhanced_image_question_generator.py: __main__ up to the batch loop of
\* process_image_directory
MainLocal ==
    /\ pc = "main" /\ script = "local" /\ ~direct
    /\ IF ~env.dir \/ ~env.dotenv \/ ~env.api_key THEN Exit(1)
       ELSE IF listing = <<>> \/ SelectionRaisesLocal THEN Exit(1)
       ELSE \E sel \in SelectionsLocal :
               /\ StartLoop([n \in 1..Len(sel) |-> [key |-> sel[n], difficulty |-> ""]])
               /\ UNCHANGED <<image_count, difficulties, distribution>>

\* s3_enhanced_question_generator.py: __main__ up to the batch loop of
\* process_s3_images
MainS3 ==
    /\ pc = "main" /\ script = "s3" /\ ~direct
    /\ IF ~env.aws_keys \/ ~env.dotenv \/ ~env.s3_init \/ ~env.api_key THEN Exit(1)
       ELSE IF listing = <<>> \/ SelectionRaisesS3 THEN Exit(1)
       ELSE \E sel \in SelectionsS3 :
            \E d \in DistributionChoices(randomize) :
            \E ds \in AssignFrom(Len(sel), randomize, d) :
            LET zipped == [n \in 1..Len(sel) |->
                             [key |-> sel[n], difficulty |-> ds[n]]]
            IN  \E prs \in (IF randomize THEN Shuffles(zipped) ELSE {zipped}) :
                   /\ StartLoop(prs)
                   /\ image_count' = Len(sel)
                   /\ difficulties' = ds
                   /\ UNCHANGED distribution

\* the exit code after save_results: an exception of the write reaches
\* `except Exception` and exit(1); otherwise the script runs to its end
ExitCodeMutFailures(st, save_ok) == IF save_ok /\ st.failed = 0 THEN 0 ELSE 1

ExitCodeAfterSave(st, save_ok) == IF save_ok THEN 0 ELSE 1

\* the end of process_* (success_rate divides by total_images: a
\* ZeroDivisionError when nothing was selected), then save_results and the
\* end of __main__
Finish ==
    /\ pc = "loop" /\ ~direct /\ i > Len(pairs)
    /\ IF stats.total_images = 0
       THEN Exit(1)
       ELSE \E save_ok \in BOOLEAN :
               /\ saved' = Save(all_questions, save_ok)
               /\ pc' = "exit"
               /\ exit_code' = ExitCodeAfterSave(stats, save_ok)
               /\ UNCHANGED <<script, direct, randomize, env, max_images, listing,
                              pairs, i, max_retries, attempt, response, log,
                              all_questions, stats, ret, heard, image_count,
                              difficulties, distribution, cli_max_retries, otherVars>>

\* --------------------------------------------------- the generation call
\* what can happen in one attempt: a step before the answer fails (download
\* only in the S3 generator), or the model answers with some text
PreFails(scr) ==
    IF scr = "s3" THEN {"download", "validate_image", "upload", "generate_content"}
    ELSE {"validate_image", "upload", "generate_content"}

Outcomes(scr) ==
    {[fail |-> f, text |-> <<>>] : f \in PreFails(scr)} \cup
    {[fail |-> "none", text |-> t] : t \in ResponseTexts}

\* a batch run is followed over the bare bodies and one fenced form of each
\* wrapped body; a direct call over every outcome
BatchTexts ==
    {NoneText} \cup Bodies \cup
    {FenceJson \o <<"\n">> \o b \o <<"\n">> \o Fence : b \in WrappedBodies}

OutcomesIn(scr, dir) ==
    IF dir THEN Outcomes(scr)
    ELSE {o \in Outcomes(scr) : o.fail # "none" \/ o.text \in BatchTexts}

\* the validated value of an answer; meaningful when Validates holds
Parsed(scr, out) ==
    json_loads(IF scr = "live" THEN CleanResponseLive(out.text)
               ELSE CleanResponse(out.text))

Validates(scr, out) ==
    /\ out.fail = "none"
    /\ Parsed(scr, out).ok
    /\ IF scr = "s3" THEN ValidS3(Parsed(scr, out)) ELSE ValidLocal(Parsed(scr, out))

\* which except clause ends the attempt: "ok" (none), "json"
\* (json.JSONDecodeError) or "exc" (Exception)
Class(scr, out) ==
    IF out.fail # "none" THEN "exc"
    ELSE IF ~Parsed(scr, out).ok THEN "json"
    ELSE IF Validates(scr, out) THEN "ok"
    ELSE "exc"

\* the local `response` after the attempt: assigned only when
\* generate_content returned
ResponseAfter(out, before) ==
    IF out.fail # "none" THEN before
    ELSE IF out.text = NoneText THEN "none" ELSE "text"

\* except Exception, last attempt: response.text[:200] raises TypeError when
\* a response is bound and its text is None
HandlerRaises(cls, att, retries, resp) ==
    cls = "exc" /\ att = retries - 1 /\ resp = "none"

ReturnValue(scr, out, pair) ==
    LET elems == Parsed(scr, out).elems
    IN  IF scr = "s3" THEN <<AcceptS3(elems[1], pair.key, pair.difficulty)>>
        ELSE [n \in 1..Len(elems) |-> AcceptLocal(elems[n], pair.key)]

\* how the call ends with this attempt: "return", "raise", "none", or
\* "retry" when the loop goes on
CallEndMutEarly(cls, att, retries, resp) ==
    IF cls = "ok" THEN "return"
    ELSE IF HandlerRaises(cls, att, retries, resp) THEN "raise"
    ELSE IF att >= retries - 2 THEN "none"
    ELSE "retry"

CallEnd(cls, att, retries, resp) ==
    IF cls = "ok" THEN "return"
    ELSE IF HandlerRaises(cls, att, retries, resp) THEN "raise"
    ELSE IF att = retries - 1 THEN "none"
    ELSE "retry"

\* the body of the batch loop after the call
Entry(status, pair) ==
    [NoEntry EXCEPT !.status = status, !.key = pair.key,
                    !.assigned_difficulty = pair.difficulty]

\* if questions: ...
RecordSuccess(st, pair, value) ==
    [st EXCEPT
        !.successful = @ + 1,
        !.total_questions = @ + Len(value),
        !.image_results[basename(pair.key)] =
            [Entry("success", pair) EXCEPT
                !.question_count = Len(value),
                !.generated_difficulty =
                    IF script = "s3" THEN value[1].difficulty_level ELSE ""]]

\* else: ...
RecordFailed(st, pair) ==
    [st EXCEPT !.failed = @ + 1,
               !.image_results[basename(pair.key)] = Entry("failed", pair)]

\* except Exception as e: ...
RecordErrorMutUncounted(st, pair) == st

RecordError(st, pair) ==
    [st EXCEPT !.failed = @ + 1,
               !.image_results[basename(pair.key)] =
                   [Entry("error", pair) EXCEPT !.error = "TypeError"]]

Record(st, pair, kind, value) ==
    IF kind = "return" /\ value # <<>> THEN RecordSuccess(st, pair, value)
    ELSE IF kind = "raise" THEN RecordError(st, pair)
    ELSE RecordFailed(st, pair)

\* the caller's part once the call has ended
AfterCall(kind, value, raw, newlog) ==
    /\ ret' = [key |-> pairs[i].key, difficulty |-> pairs[i].difficulty,
               attempts |-> Len(newlog), kind |-> kind, value |-> value, raw |-> raw]
    /\ attempt' = 0
    /\ response' = "unset"
    /\ log' = <<>>
    /\ IF direct
       THEN /\ pc' = "returned"
            /\ UNCHANGED <<i, all_questions, stats>>
       ELSE /\ pc' = pc
            /\ i' = i + 1
            /\ all_questions' = IF kind = "return" THEN all_questions \o value
                                ELSE all_questions
            /\ stats' = Record(stats, pairs[i], kind, value)

\* time.sleep(wait_time) at the end of an attempt; 0: the loop does not
\* sleep. In the local generator the `if attempt < max_retries - 1` block
\* follows the try statement; in the S3 generator it is indented into the
\* `except Exception` handler, which a json.JSONDecodeError does not enter
wait_time(scr, cls, att, retries) ==
    IF cls = "ok" \/ att >= retries - 1 THEN 0
    ELSE IF scr = "s3" /\ cls # "exc" THEN 0
    ELSE (att + 1) * 2

\* the temporary files an attempt of the S3 generator leaves on disk.
\* download_image_to_temp creates the file (NamedTemporaryFile with
\* delete=False) before download_file; when download_file raises it returns
\* None, the caller's temp_path stays None and the finally clause skips
\* cleanup_temp_file. After a download that worked the finally clause
\* unlinks the file (os.unlink is taken to succeed). The local generator
\* creates no temporary file.
TempLeft(scr, out) ==
    IF scr = "s3" /\ out.fail = "download" THEN 1 ELSE 0

\* the prompt an attempt builds, as the history keeps it: the prompt itself
\* in a run without randomization, a mark in a run with it (every prompt
\* of Prompts is then possible; BuildPrompt draws them)
DrawnPrompt == <<"drawn">>

PromptOnRecord(scr, rnd, pair) ==
    IF rnd THEN DrawnPrompt
    ELSE CHOOSE pr \in Prompts(scr, rnd, pair) : TRUE

\* one iteration of `for attempt in range(max_retries)` of
\* generate_questions_from_image_batch / generate_question_from_s3_image and,
\* when it ends the call, the rest of the caller's loop body
Attempt ==
    /\ pc = "loop" /\ i <= Len(pairs) /\ attempt < max_retries
    /\ \E out \in OutcomesIn(script, direct) :
          LET cls == Class(script, out)
              resp == ResponseAfter(out, response)
              kind == CallEnd(cls, attempt, max_retries, resp)
              newlog == Append(log, cls)
          IN
          /\ IF kind = "retry"
             THEN /\ attempt' = attempt + 1
                  /\ response' = resp
                  /\ log' = newlog
                  /\ ret' = NoRet
                  /\ UNCHANGED <<pc, i, all_questions, stats>>
             ELSE AfterCall(kind,
                             IF kind = "return" THEN ReturnValue(script, out, pairs[i])
                             ELSE <<>>,
                             IF kind = "return" THEN Parsed(script, out).elems ELSE <<>>,
                             newlog)
          /\ heard' = IF direct /\ out.fail = "none"
                      THEN [text |-> out.text, cleaned |-> CleanResponse(out.text),
                            ok |-> Parsed(script, out).ok, answered |-> TRUE]
                      ELSE IF direct THEN heard ELSE NoHeard
          /\ prompt' = IF out.fail \in {"none", "generate_content"}
                       THEN PromptOnRecord(script, randomize, pairs[i])
                       ELSE prompt
          /\ sleeps' = IF direct
                       THEN Append(sleeps,
                                   [cls |-> cls,
                                    wait |-> wait_time(script, cls, attempt,
                                                       max_retries)])
                       ELSE sleeps
          /\ temp_files' = IF direct THEN temp_files + TempLeft(script, out)
                           ELSE temp_files
    /\ UNCHANGED <<script, direct, randomize, env, max_images, listing, pairs,
                   max_retries, saved, exit_code, image_count, difficulties,
                   distribution, cli_max_retries, for_pos, variations, uiVars>>

\* a direct call of the prompt builder. generate_randomized_prompt binds
\* difficulty_dist to a new dict before it corrects an entry, and returns the
\* configured dict untouched when its total is the question count: the
\* configured variations are read, never written
BuildPrompt ==
    /\ pc = "prompt"
    /\ prompt' \in Prompts(script, randomize, pairs[1])
    /\ variations' = variations
    /\ pc' = "returned"
    /\ UNCHANGED <<script, direct, randomize, env, max_images, listing, pairs, i,
                   max_retries, attempt, response, log, all_questions, stats, ret,
                   heard, saved, exit_code, image_count, difficulties,
                   distribution, cli_max_retries, for_pos, sleeps, temp_files,
                   variations, uiVars>>

\* range(max_retries) is empty: the call returns None without an attempt
NoAttempt ==
    /\ pc = "loop" /\ i <= Len(pairs) /\ max_retries <= 0
    /\ AfterCall("none", <<>>, <<>>, <<>>)
    /\ UNCHANGED <<script, direct, randomize, env, max_images, listing, pairs,
                   max_retries, heard, saved, exit_code, image_count, difficulties,
                   distribution, cli_max_retries, otherVars>>

\* image.py: __main__ with generate_questions_from_image_live (one attempt,
\* every exception caught), update_image_paths and save_json
MainLive ==
    /\ pc = "main" /\ script = "live"
    /\ IF ~env.dotenv \/ ~env.api_key THEN Exit(1)
       ELSE \E out \in Outcomes("live"), save_ok \in BOOLEAN :
            LET cls == Class("live", out)
                generated == IF cls = "ok" THEN Parsed("live", out).elems ELSE <<>>
                updated == update_image_paths(generated, listing[1])
            IN  /\ ret' = [key |-> listing[1], difficulty |-> "", attempts |-> 1,
                           kind |-> IF cls = "ok" THEN "return" ELSE "none",
                           value |-> generated, raw |-> generated]
                /\ all_questions' = updated
                /\ saved' = IF generated # <<>> THEN Save(updated, save_ok) ELSE saved
                /\ exit_code' = IF generated # <<>> /\ ~save_ok THEN 1 ELSE 0
                /\ pc' = "exit"
                /\ UNCHANGED <<script, direct, randomize, env, max_images, listing,
                               pairs, i, max_retries, attempt, response, log, stats,
                               heard, image_count, difficulties, distribution,
                               cli_max_retries, otherVars>>

Next ==
    Assign \/ BuildPrompt \/ MainLocal \/ MainS3 \/ MainLive \/ Attempt
        \/ NoAttempt \/ Finish

Spec == Init /\ [][Next]_vars

\* ------------------------- assign_global_difficulties, one loop step at a time
\* a call with a ratio mapping of the caller's (config.
\* global_difficulty_distributions holds what the caller put there): one to
\* three keys, ratios in percent; config.randomize is off, so that the
\* returned list is the one the loops built
RatioValues == {0, 30, 50, 120}
RatioMappings == UNION {[1..n -> RatioValues] : n \in 1..3}

loopRest == <<script, direct, randomize, env, max_images, listing, pairs, i,
              max_retries, attempt, response, log, all_questions, stats, ret,
              heard, saved, exit_code, image_count, distribution,
              cli_max_retries, prompt, sleeps, temp_files, variations,
              uiVars>>

LoopInit ==
    /\ script = "s3"
    /\ direct = TRUE
    /\ randomize = FALSE
    /\ env = GoodEnv
    /\ max_images = 0
    /\ listing = <<>>
    /\ pairs = <<>>
    /\ max_retries = DefaultMaxRetries
    /\ cli_max_retries = DefaultMaxRetries
    /\ image_count \in (-1)..MaxLoopCount
    /\ distribution \in RatioMappings
    /\ pc = "for"
    /\ for_pos = 1
    /\ difficulties = <<>>
    /\ UiIdle
    /\ CallIdle

\* for difficulty, ratio in distribution.items(): one iteration
ForStep ==
    /\ pc = "for" /\ for_pos <= Len(distribution)
    /\ difficulties' = difficulties \o
          Repeat(Difficulties[for_pos], RawCount(image_count, distribution[for_pos]))
    /\ for_pos' = for_pos + 1
    /\ pc' = IF for_pos = Len(distribution) THEN "trim" ELSE "for"
    /\ UNCHANGED loopRest

\* difficulties.pop()
PopLast(l) == SubSeq(l, 1, Len(l) - 1)

\* while len(difficulties) > image_count: one test and one iteration;
\* list.pop() raises IndexError on an empty list
TrimStep ==
    /\ pc = "trim"
    /\ IF Len(difficulties) > image_count
       THEN IF difficulties = <<>>
            THEN pc' = "raised" /\ UNCHANGED difficulties
            ELSE difficulties' = PopLast(difficulties) /\ pc' = "trim"
       ELSE pc' = "pad" /\ UNCHANGED difficulties
    /\ UNCHANGED <<for_pos, loopRest>>

\* difficulties.append(most_common)
AppendMostCommonMutNothing(l, dist) == l

AppendMostCommon(l, dist) == Append(l, Difficulties[most_common(dist)])

\* while len(difficulties) < image_count: one test and one iteration
PadStep ==
    /\ pc = "pad"
    /\ IF Len(difficulties) < image_count
       THEN difficulties' = AppendMostCommon(difficulties, distribution) /\ pc' = "pad"
       ELSE pc' = "shuffle" /\ UNCHANGED difficulties
    /\ UNCHANGED <<for_pos, loopRest>>

\* if config.randomize: random.shuffle(difficulties); return difficulties
ShuffleStep ==
    /\ pc = "shuffle"
    /\ difficulties' \in (IF randomize THEN Shuffles(difficulties) ELSE {difficulties})
    /\ pc' = "returned"
    /\ UNCHANGED <<for_pos, loopRest>>

LoopNext == ForStep \/ TrimStep \/ PadStep \/ ShuffleStep

\* the interpreter runs the call until it returns or raises
LoopSpec == LoopInit /\ [][LoopNext]_vars /\ WF_vars(LoopNext)

\* the loops compute what AssignUnshuffled computes in one step
LoopMatchesClosedForm ==
    (pc = "returned" /\ ~randomize /\ for_pos > 0 /\ image_count >= 0) =>
        difficulties = AssignUnshuffled(image_count, distribution)

\* -------------------------------------------------------------- the exam UIs
\* st.session_state is a function from the keys it holds to their values
Put(f, k, v) == [x \in DOMAIN f \cup {k} |-> IF x = k THEN v ELSE f[x]]

Del(f, ks) == [x \in DOMAIN f \ ks |-> f[x]]

\* if k not in st.session_state: st.session_state[k] = v
Default(f, k, v) == IF k \in DOMAIN f THEN f ELSE Put(f, k, v)

\* the minutes between two looks at the clock
ClockStep == 5

\* start_time / timer_start = None
NoTime == -1

\* a question as the UIs use it; every question has four options.  The
\* generators accept any correct_answer_index, so a file can hold -1
UiQuestion(id, cai, path) ==
    [id |-> id, correct_answer_index |-> cai, image_path |-> path]

\* the question file when the application starts
QuestionFiles ==
    {<<>>, <<UiQuestion(1, 0, "saved")>>,
     <<UiQuestion(1, 0, "saved"), UiQuestion(2, -1, "saved")>>}

\* what generate_questions_from_image_live can return to the page: None,
\* or the questions of the answer
LiveResults ==
    {<<>>, <<UiQuestion(3, 3, "model")>>,
     <<UiQuestion(3, 3, "model"), UiQuestion(4, 0, "model")>>}

\* the options the user picks, of the four of a question
Options == {0, 3}

\* the slider position the user chooses (5..60 in exam_app, 10..120 in the
\* styled application)
DurationsOf(a) == IF a = "exam_app" THEN {5} ELSE {10}

\* the pages of the sidebar; "Question Management" displays the file as
\* "View Results" displays the history, and is not followed
Pages == {"Take Exam", "View Results", "Generate Questions"}

\* a user event: the widget whose change starts the script run, and its value
Ev(kind, arg) == [kind |-> kind, arg |-> arg]

NoEvent == Ev("none", 0)

\* the result of a script run
Ran(s, again, view) == [ss |-> s, rerun |-> again, shown |-> view]

\* exam_app.py: calculate_score
Correct(user_answers, questions) ==
    {n \in 1..Len(questions) :
        /\ n <= Len(user_answers)
        /\ user_answers[n] = questions[n].correct_answer_index}

calculate_score(user_answers, questions) ==
    [correct |-> Cardinality(Correct(user_answers, questions)),
     total |-> Len(questions)]

\* exam_page: the keys it initialises
SessionInit(s, questions) ==
    LET s1 == Default(s, "exam_started", FALSE)
        s2 == Default(s1, "start_time", NoTime)
        s3 == Default(s2, "user_answers", Repeat(-1, Len(questions)))
        s4 == Default(s3, "exam_finished", FALSE)
    IN  Default(s4, "exam_duration", 20)

\* exam_page: pre-exam setup
PreExam(s, questions, t, ev) ==
    LET s1 == Put(s, "exam_duration",
                  IF ev.kind = "slider" THEN ev.arg ELSE s.exam_duration)
        s2 == Put(s1, "exam_started", TRUE)
        s3 == Put(s2, "start_time", t)
        s4 == Put(s3, "user_answers", Repeat(-1, Len(questions)))
    IN  IF ev.kind = "start"
        THEN Ran(Put(s4, "exam_finished", FALSE), TRUE, [view |-> "pre"])
        ELSE Ran(s1, FALSE, [view |-> "pre"])

\* if remaining_time <= 0, with remaining_time = max(0, total_time - elapsed_time)
TimeIsUpMutLate(elapsed, duration) == duration - elapsed < 0

TimeIsUp(elapsed, duration) == Max2(0, duration - elapsed) <= 0

\* exam_page: during the exam
\* st.checkbox inside the branch of a button that reads True: the run was
\* triggered by the click of the button, the checkbox is created in it and
\* returns its default
NewCheckbox == FALSE

DuringExam(s, questions, t, ev) ==
    IF TimeIsUp(t - s.start_time, s.exam_duration)
    THEN Ran(Put(s, "exam_finished", TRUE), TRUE, [view |-> "timeup"])
    ELSE
    LET s1 == Default(s, "current_question", 0)
        cq == s1.current_question
    IN  IF cq >= Len(questions) \/ cq >= Len(s1.user_answers)
        THEN \* IndexError: questions[...] or user_answers[...]
             Ran(s1, FALSE, [view |-> "error"])
        ELSE
        LET before == s1.user_answers[cq + 1]
            s2 == IF ev.kind = "select"
                  THEN Put(s1, "user_answers",
                           [s1.user_answers EXCEPT ![cq + 1] = ev.arg])
                  ELSE s1 \* the radio returns the saved answer, or None
            answered_count == Len(questions) - Count(s2.user_answers, -1)
                              - (Len(questions) - Len(s2.user_answers))
            exam == [view |-> "exam", current_question |-> cq,
                     total |-> Len(questions), answered |-> answered_count,
                     confirm |-> ev.kind = "submit"
                                 /\ answered_count < Len(questions)]
        IN  IF ev.kind = "prev" /\ cq # 0
            THEN Ran(Put(s2, "current_question", cq - 1), TRUE, exam)
            ELSE IF ev.kind = "next" /\ cq # Len(questions) - 1
            THEN Ran(Put(s2, "current_question", cq + 1), TRUE, exam)
            ELSE IF ev.kind = "jump" /\ ev.arg # cq
            THEN Ran(Put(s2, "current_question", ev.arg), TRUE, exam)
            ELSE IF ev.kind = "submit"
                    /\ (answered_count >= Len(questions) \/ NewCheckbox)
            THEN Ran(Put(s2, "exam_finished", TRUE), TRUE, exam)
            ELSE \* Submit with unanswered questions shows the checkbox; in
                 \* the run its tick triggers ("confirm") the button reads
                 \* False and its branch, the checkbox included, is skipped
                 Ran(s2, FALSE, exam)

\* display_results. The entry of exam_history holds the time of this run as
\* its date and, as time_taken, the time from start_time to this run; the
\* score stands for score, percentage and difficulty_breakdown. A click of
\* Take Another Exam reruns before the entry is written. View All Results
\* writes st.session_state.page, which nothing reads, and reruns.
display_results(s, questions, t, ev) ==
    LET score == calculate_score(s.user_answers, questions)
        results == [view |-> "results", correct |-> score.correct,
                    total |-> score.total]
        s1 == Default(s, "exam_history", <<>>)
        exam_result == [date |-> t, correct |-> score.correct,
                        total |-> score.total, time_taken |-> t - s.start_time]
        s2 == IF Len(s1.exam_history) = 0
                 \/ s1.exam_history[Len(s1.exam_history)] # exam_result
              THEN Put(s1, "exam_history", Append(s1.exam_history, exam_result))
              ELSE s1
    IN  IF ev.kind = "again"
        THEN Ran(Del(s, {"exam_started", "start_time", "user_answers",
                         "exam_finished", "current_question"}), TRUE, results)
        ELSE IF ev.kind = "view_all" THEN Ran(s2, TRUE, results)
        ELSE Ran(s2, FALSE, results)

exam_page(s, questions, t, ev) ==
    IF questions = <<>> THEN Ran(s, FALSE, [view |-> "no questions"])
    ELSE LET s1 == SessionInit(s, questions)
         IN  IF ~s1.exam_started THEN PreExam(s1, questions, t, ev)
             ELSE IF ~s1.exam_finished THEN DuringExam(s1, questions, t, ev)
             ELSE display_results(s1, questions, t, ev)

\* exam_app.py: main, one script run (the Generate button is GenerateQuestions)
exam_app_main(s, pg, questions, t, ev) ==
    IF pg = "Take Exam" THEN exam_page(s, questions, t, ev)
    ELSE Ran(s, FALSE, [view |-> pg])

\* streamlit_exam_app.py: init_session_state (exam_id, a random identifier,
\* is left out)
init_session_state(s) ==
    LET s1 == Default(s, "current_question_index", 0)
        s2 == Default(s1, "questions", <<>>)
        s3 == Default(s2, "answers", <<>>)
        s4 == Default(s3, "exam_started", FALSE)
        s5 == Default(s4, "exam_completed", FALSE)
        s6 == Default(s5, "timer_start", NoTime)
        s7 == Default(s6, "user_info", <<>>)
    IN  Default(s7, "difficulty_distribution", <<0, 0, 0>>)

\* st.session_state.user_info.get('time_limit', 30)
TimeLimit(s) ==
    IF "time_limit" \in DOMAIN s.user_info THEN s.user_info.time_limit ELSE 30

\* the arguments a direct call of generate_questions is followed over: the
\* values of the percentage sliders (0..100 in steps of 10), and question
\* counts from 1 to the slider's default
PercentChoices == {0, 10, 20, 30, 40, 50, 60, 70, 80, 90, 100}

NumQuestionsChoices == {1, 5, 10}

\* generate_questions: question_counts, the number of questions per
\* difficulty (Easy, Medium, Hard): int(round(num_questions * pct / 100)),
\* then the difference to num_questions added to, or the excess taken
\* from, the first difficulty with the largest percentage
question_counts(num_questions, difficulty_distribution) ==
    LET counts == [k \in 1..3 |->
                      PyRound(num_questions * difficulty_distribution[k], 100)]
        total == Sum3(counts)
        common == most_common(difficulty_distribution)
    IN  IF total < num_questions
        THEN [counts EXCEPT ![common] = @ + (num_questions - total)]
        ELSE IF total > num_questions
        THEN [counts EXCEPT ![common] = @ - (total - num_questions)]
        ELSE counts

\* generate_questions over s3_questions.json: every question of a file
\* that holds at most num_questions (5 or more) is selected, and the list
\* is shuffled; [] without S3 client or images
generate_questions(file) == {<<>>} \cup Shuffles(file)

\* show_welcome_page: the form submitted with ev.arg
show_welcome_page(s, t, ev) ==
    IF ev.kind = "start" /\ ev.arg.valid
    THEN LET s1 == Put(s, "user_info", [time_limit |-> ev.arg.time_limit])
             s2 == Put(s1, "questions", ev.arg.questions)
             s3 == Put(s2, "exam_started", TRUE)
         IN  IF ev.arg.questions # <<>>
             THEN Ran(Put(s3, "timer_start", t), TRUE, [view |-> "welcome"])
             ELSE Ran(s1, FALSE, [view |-> "welcome"])
    ELSE Ran(s, FALSE, [view |-> "welcome"])

\* show_exam_page: the radio shows the saved answer or option 0, and what
\* it returns is saved
RadioValue(answers, cqi, ev) ==
    IF ev.kind = "select" THEN ev.arg
    ELSE IF cqi \in DOMAIN answers THEN answers[cqi] ELSE 0

show_exam_page(s, ev) ==
    IF s.questions = <<>> THEN Ran(s, FALSE, [view |-> "no questions"])
    ELSE
    LET cqi == s.current_question_index
        total == Len(s.questions)
        s1 == Put(s, "answers", Put(s.answers, cqi, RadioValue(s.answers, cqi, ev)))
        exam == [view |-> "exam", current_question |-> cqi, total |-> total,
                 answered |-> Cardinality(DOMAIN s1.answers),
                 confirm |-> ev.kind = "submit"
                             /\ Cardinality(DOMAIN s1.answers) < total]
    IN  IF ev.kind = "prev" /\ cqi # 0
        THEN Ran(Put(s1, "current_question_index", cqi - 1), TRUE, exam)
        ELSE IF ev.kind = "next" /\ cqi # total - 1
        THEN Ran(Put(s1, "current_question_index", cqi + 1), TRUE, exam)
        ELSE IF ev.kind = "submit"
                /\ (Cardinality(DOMAIN s1.answers) >= total \/ NewCheckbox)
        THEN Ran(Put(s1, "exam_completed", TRUE), TRUE, exam)
        ELSE Ran(s1, FALSE, exam)

\* calculate_results
calculate_results(s) ==
    LET qs == s.questions
        answers == s.answers
    IN  [correct |-> Cardinality({n \in 0..(Len(qs) - 1) :
                        /\ n \in DOMAIN answers
                        /\ answers[n] = qs[n + 1].correct_answer_index}),
         incorrect |-> Cardinality({n \in DOMAIN answers :
                        answers[n] # qs[n + 1].correct_answer_index}),
         unanswered |-> Len(qs) - Cardinality(DOMAIN answers),
         total |-> Len(qs)]

\* show_results_page, with restart_exam behind "Start New Exam"
show_results_page(s, ev) ==
    LET results == [view |-> "results"] @@ calculate_results(s)
    IN  IF ev.kind = "again" THEN Ran(init_session_state(<<>>), TRUE, results)
        ELSE Ran(s, FALSE, results)

\* streamlit_exam_app.py: main, one script run
styled_main(s, t, ev) ==
    LET s0 == init_session_state(s)
    IN  IF /\ s0.exam_started /\ s0.timer_start # NoTime
           /\ TimeIsUp(t - s0.timer_start, TimeLimit(s0))
           /\ ~s0.exam_completed
        THEN \* show_timer: submit_exam()
             Ran(Put(s0, "exam_completed", TRUE), TRUE, [view |-> "timeup"])
        ELSE IF s0.exam_started /\ ~s0.exam_completed /\ ev.kind = "jump"
        THEN \* show_question_navigator: jump_to_question
             Ran(Put(s0, "current_question_index", ev.arg), TRUE,
                 [view |-> "navigator"])
        ELSE IF ~s0.exam_started THEN show_welcome_page(s0, t, ev)
        ELSE IF s0.exam_completed THEN show_results_page(s0, ev)
        ELSE show_exam_page(s0, ev)

\* update_image_paths on the questions of the UI
UiUpdatePaths(questions, image_to_process) ==
    [n \in 1..Len(questions) |->
        [questions[n] EXCEPT !.image_path = image_to_process]]

\* the Generate Questions page: what the file holds after the click
CombinedMutNewFirst(append_mode, existing, new) ==
    IF append_mode THEN new \o existing ELSE new

Combined(append_mode, existing, new) ==
    IF append_mode THEN existing \o new ELSE new

\* ------------------------------------------------------- exam UI, actions
pipeVars == <<script, direct, randomize, env, max_images, listing, pc, pairs, i,
              max_retries, attempt, response, log, all_questions, stats, ret,
              heard, saved, exit_code, image_count, difficulties, distribution,
              cli_max_retries, for_pos, prompt, sleeps, temp_files,
              variations>>

ExamInit ==
    /\ script = "live"
    /\ direct = TRUE
    /\ randomize = FALSE
    /\ env = GoodEnv
    /\ max_images = 0
    /\ listing = <<>>
    /\ pairs = <<>>
    /\ max_retries = DefaultMaxRetries
    /\ cli_max_retries = DefaultMaxRetries
    /\ image_count = 0
    /\ difficulties = <<>>
    /\ distribution = <<>>
    /\ for_pos = 0
    /\ CallIdle
    /\ page = "Take Exam"
    /\ now = 0
    /\ shown = NoShown
    /\ gen = NoGen
    /\ \/ /\ pc = "ui"
          /\ app \in {"exam_app", "styled"}
          /\ qfile \in QuestionFiles
          /\ ss = NoSession
          /\ rerun = TRUE
       \/ /\ pc = "ui_history"
          /\ app = "exam_app"
          /\ qfile = <<UiQuestion(1, 0, "saved")>>
          /\ ss = NoSession
          /\ rerun = TRUE
       \/ /\ pc = "counts"      \* a direct call of generate_questions
          /\ app = "styled"
          /\ qfile = <<>>
          /\ ss = init_session_state(NoSession)
          /\ rerun = FALSE

\* one run of the script on event ev. exam_history, which only the table
\* of the View Results page reads, is followed in the sessions that start
\* with pc = "ui_history"
Run(pg, ev) ==
    LET r == IF app = "exam_app" THEN exam_app_main(ss, pg, qfile, now, ev)
             ELSE styled_main(ss, now, ev)
    IN  /\ ss' = IF pc = "ui" THEN Del(r.ss, {"exam_history"}) ELSE r.ss
        /\ rerun' = r.rerun
        /\ shown' = r.shown
        /\ page' = pg
        /\ gen' = NoGen
        /\ UNCHANGED <<app, qfile, now, pipeVars>>

Showing(view) == ~rerun /\ shown.view = view

\* st.rerun(), and the first run of a session
Rerun == rerun /\ Run(page, NoEvent)

\* the sidebar selectbox of exam_app
SwitchPage ==
    /\ app = "exam_app" /\ ~rerun
    /\ \E pg \in Pages \ {page} : Run(pg, NoEvent)

SetDuration ==
    /\ app = "exam_app" /\ Showing("pre")
    /\ \E d \in DurationsOf(app) : Run(page, Ev("slider", d))

StartExam ==
    \/ /\ app = "exam_app" /\ Showing("pre")
       /\ Run(page, Ev("start", 0))
    \/ /\ app = "styled" /\ Showing("welcome")
       /\ \E d \in DurationsOf(app), valid \in BOOLEAN, qs \in generate_questions(qfile) :
             Run(page, Ev("start", [time_limit |-> d, valid |-> valid,
                                    questions |-> qs]))

SelectAnswer ==
    /\ Showing("exam")
    /\ \E o \in Options : Run(page, Ev("select", o))

Previous ==
    /\ Showing("exam") /\ shown.current_question > 0
    /\ Run(page, Ev("prev", 0))

NextQuestion ==
    /\ Showing("exam") /\ shown.current_question < shown.total - 1
    /\ Run(page, Ev("next", 0))

\* the "Jump to" selectbox of exam_app, a navigator button of the styled one
JumpTo ==
    /\ Showing("exam")
    /\ \E q \in 0..(shown.total - 1) :
          /\ app = "exam_app" => q # shown.current_question
          /\ Run(page, Ev("jump", q))

SubmitExam == Showing("exam") /\ Run(page, Ev("submit", 0))

\* a tick of the confirmation checkbox, displayed by the run of a Submit
\* click with unanswered questions
ConfirmSubmit ==
    /\ Showing("exam") /\ shown.confirm
    /\ Run(page, Ev("confirm", 0))

\* "Take Another Exam" / "Start New Exam"
\* a session is followed while its history holds fewer than MaxHistory
\* entries
TakeAnotherExam ==
    /\ Showing("results")
    /\ "exam_history" \in DOMAIN ss => Len(ss.exam_history) < MaxHistory
    /\ Run(page, Ev("again", 0))

\* the View All Results button of exam_app
ViewAllResults ==
    /\ app = "exam_app" /\ Showing("results")
    /\ Run(page, Ev("view_all", 0))

\* the Generate Questions button of exam_app: the whole handler
GenerateQuestions ==
    /\ pc = "ui" /\ app = "exam_app" /\ Showing("Generate Questions")
    /\ \E append_mode \in BOOLEAN, res \in LiveResults, save_ok \in BOOLEAN :
          LET image_to_process == "image"
              new_questions == UiUpdatePaths(res, image_to_process)
              combined == Combined(append_mode, qfile, new_questions)
          IN  /\ Len(combined) <= MaxQuestions
              /\ qfile' = IF res # <<>> /\ save_ok THEN combined ELSE qfile
              /\ gen' = [clicked |-> TRUE, append_mode |-> append_mode,
                         new_questions |-> new_questions, save_ok |-> save_ok,
                         before |-> qfile]
              /\ shown' = [view |-> "Generate Questions"]
              /\ UNCHANGED <<app, page, ss, now, rerun, pipeVars>>

\* generate_questions(num_questions, difficulty_distribution) called
\* directly, up to `st.session_state.difficulty_distribution = question_counts`
CountQuestions ==
    /\ pc = "counts"
    /\ \E num_questions \in NumQuestionsChoices,
          difficulty_distribution \in [1..3 -> PercentChoices] :
          /\ ss' = Put(ss, "difficulty_distribution",
                       question_counts(num_questions, difficulty_distribution))
          /\ shown' = [view |-> "counts", num_questions |-> num_questions,
                       difficulty_distribution |-> difficulty_distribution]
    /\ pc' = "returned"
    /\ UNCHANGED <<script, direct, randomize, env, max_images, listing, pairs, i,
                   max_retries, attempt, response, log, all_questions, stats, ret,
                   heard, saved, exit_code, image_count, difficulties,
                   distribution, cli_max_retries, for_pos, prompt, sleeps,
                   temp_files, variations, app, page, qfile, now, rerun, gen>>

TimePasses ==
    /\ pc \in {"ui", "ui_history"} /\ ~rerun /\ now + ClockStep <= MaxClock
    /\ now' = now + ClockStep
    /\ UNCHANGED <<app, page, qfile, ss, rerun, shown, gen, pipeVars>>

ExamNext ==
    \/ Rerun \/ SwitchPage \/ SetDuration \/ StartExam \/ SelectAnswer
    \/ Previous \/ NextQuestion \/ JumpTo \/ SubmitExam \/ TakeAnotherExam
    \/ GenerateQuestions \/ TimePasses \/ CountQuestions \/ ViewAllResults
    \/ ConfirmSubmit

ExamSpec == ExamInit /\ [][ExamNext]_vars /\ WF_vars(Rerun)

\* ----------------------------------------------------------------- claims
BatchScript == script \in {"local", "s3"} /\ ~direct
Retrying == script \in {"local", "s3"}
AllocatorReturned == image_count >= 1 /\ pc # "assign"
CountsOf(l) == [d \in Range(Difficulties) |-> Count(l, d)]

\* C1: for every image_count >= 1 and every catalog distribution, with or
\* without randomization, the list assign_global_difficulties returns has
\* exactly image_count labels, all of them Easy, Medium or Hard, so the
\* per-difficulty counts sum to image_count.
C1_LengthIsImageCount ==
    AllocatorReturned =>
        /\ Len(difficulties) = image_count
        /\ CountsOf(difficulties)["Easy"] + CountsOf(difficulties)["Medium"]
             + CountsOf(difficulties)["Hard"] = image_count

\* three images under the first distribution: 2 + 1 + 1 labels, one trimmed
C1_Witness ==
    /\ pc = "returned" /\ image_count = 3 /\ ~randomize
    /\ difficulties = <<"Easy", "Easy", "Medium">>

\* C2: when image_count is at least the number of difficulties with a
\* positive ratio (all three, for every catalog distribution), every
\* difficulty is assigned to at least one image in the returned list.
C2_EveryDifficultyAssigned ==
    (AllocatorReturned /\ image_count >= Len(Difficulties)) =>
        \A d \in Range(Difficulties) : Count(difficulties, d) >= 1

\* C3: a question is returned by a generation function, and is in the output
\* list, only if the parsed answer was an array whose elements are objects
\* with the six required keys, a list of exactly 4 options and a
\* difficulty_level among Easy, Medium, Hard.
C3_AcceptedOnlyIfValid ==
    /\ ret.kind = "return" =>
          \A n \in 1..Len(ret.raw) : ItemValidLocal(ret.raw[n])
    /\ \A n \in 1..Len(all_questions) :
          /\ all_questions[n].isObj
          /\ RequiredKeys \subseteq all_questions[n].keys
          /\ HasOptions(all_questions[n])
          /\ all_questions[n].difficulty_level \in DifficultyEnum

\* C4: every accepted question has an integer correct_answer_index in 0..3.
C4_AnswerIndexInRange ==
    /\ \A n \in 1..Len(ret.value) :
          ret.value[n].caiIsInt /\ ret.value[n].cai \in 0..3
    /\ \A n \in 1..Len(all_questions) :
          all_questions[n].caiIsInt /\ all_questions[n].cai \in 0..3

\* C5: a question returned by generate_question_from_s3_image carries the
\* assigned difficulty, whatever the model stated, and every successful
\* image_results entry has generated_difficulty = assigned_difficulty.
C5_DifficultyForced ==
    script = "s3" =>
        /\ ret.kind = "return" => ret.value[1].difficulty_level = ret.difficulty
        /\ \A b \in AllBases :
              stats.image_results[b].status = "success" =>
                  stats.image_results[b].generated_difficulty
                      = stats.image_results[b].assigned_difficulty

\* the model stated another difficulty than the assigned one
C5_Witness ==
    /\ script = "s3" /\ ~direct /\ ret.kind = "return"
    /\ ret.raw[1].difficulty_level # ret.difficulty
    /\ stats.image_results[basename(ret.key)].status = "success"

\* C6: the retry loop makes at most max_retries attempts for one image, makes
\* no attempt after one that validated, and has made exactly max_retries
\* attempts when it ends without a result.
C6_AtMostMaxRetries ==
    Retrying =>
        /\ attempt <= max_retries
        /\ Len(log) = attempt
        /\ \A n \in 1..Len(log) : log[n] # "ok"
        /\ ret.kind # "" => ret.attempts <= max_retries
        /\ ret.kind \in {"none", "raise"} => ret.attempts = max_retries

\* two attempts allowed, the second answered with JSON that is not an array
C6_Witness ==
    /\ direct /\ max_retries = 2 /\ ret.kind = "none" /\ ret.attempts = 2
    /\ heard.answered /\ heard.cleaned = <<"q_easy">> /\ heard.ok

\* C7: whatever the attempts' outcomes, the retry loop never lets an
\* exception reach its caller.
C7_NeverRaises == Retrying => ret.kind # "raise"

\* C8: the batch loop handles every selected image once and in order,
\* whatever happened to the earlier ones; successful + failed counts the
\* images handled so far (total_images at the end) and total_questions is
\* the length of the question list.
C8_BatchContinues ==
    (BatchScript /\ pc \in {"loop", "exit"}) =>
        /\ stats.total_images = Len(pairs)
        /\ i <= Len(pairs) + 1
        /\ stats.successful + stats.failed = i - 1
        /\ stats.total_questions = Len(all_questions)
        /\ ret.kind # "" => ret.key = pairs[i - 1].key
        /\ pc = "exit" => /\ i = Len(pairs) + 1
                          /\ stats.successful + stats.failed = stats.total_images

\* the first image ended in an exception, the second one succeeded
C8_Witness ==
    /\ script = "local" /\ ~direct /\ pc = "exit" /\ Len(pairs) = 2
    /\ stats.image_results[basename(pairs[1].key)].status = "error"
    /\ stats.image_results[basename(pairs[2].key)].status = "success"

CredentialsMissing == ~env.api_key \/ ~env.aws_keys
InputDirMissing == ~env.dir

NothingSelected ==
    \/ listing = <<>>
    \/ IF script = "local"
       THEN SelectionRaisesLocal \/ SelectionsLocal = {<<>>}
       ELSE SelectionRaisesS3 \/ SelectionsS3 = {<<>>}

FatalBeforeLoop ==
    CredentialsMissing \/ InputDirMissing \/ ~env.dotenv \/ ~env.s3_init
        \/ NothingSelected

InnerOf(text) == SubSeq(text, Len(FenceJson) + 2, Len(text) - Len(Fence) - 1)

FencedArray(text) ==
    /\ startswith(text, FenceJson \o <<"\n">>)
    /\ endswith(text, <<"\n">> \o Fence)
    /\ Len(text) >= Len(FenceJson) + Len(Fence) + 4
    /\ InnerOf(text)[1] = "["
    /\ InnerOf(text)[Len(InnerOf(text))] = "]"
    /\ json_loads(InnerOf(text)).ok

C10_FencedArrayParses ==
    (heard.answered /\ FencedArray(heard.text)) =>
        heard.cleaned = InnerOf(heard.text) /\ heard.ok

C10_Witness ==
    /\ heard.answered /\ FencedArray(heard.text)
    /\ Len(InnerOf(heard.text)) > 3
    /\ ret.kind = "return" /\ Len(ret.value) = 2

\* C11: in every generation function an answer wrapped in a leading and/or
\* trailing code-fence marker, with or without a language tag after the
\* opening fence, has the markers stripped before parsing, so a fenced
\* well-formed array is never rejected as malformed.
Unfenced(text) ==
    LET t0 == strip(TextOrEmpty(text))
        t1 == IF startswith(t0, FenceJson) THEN SubSeq(t0, Len(FenceJson) + 1, Len(t0))
              ELSE IF startswith(t0, Fence) THEN SubSeq(t0, Len(Fence) + 1, Len(t0))
              ELSE t0
        t2 == IF endswith(t1, Fence) THEN SubSeq(t1, 1, Len(t1) - Len(Fence)) ELSE t1
    IN  strip(t2)

FenceWrapped(text) ==
    LET t0 == strip(TextOrEmpty(text))
    IN  startswith(t0, Fence) \/ endswith(t0, Fence)

C11_AnyFenceStripped ==
    (heard.answered /\ FenceWrapped(heard.text)
        /\ json_loads(Unfenced(heard.text)).ok
        /\ json_loads(Unfenced(heard.text)).isList) => heard.ok

\* C12: every question a successful generation returns has image_path set
\* to the caller's reference (the basename in the local generator, the
\* bucket URL of the key in the S3 generator) whatever the model returned,
\* and has topic and subtopic: the model's value when it gave one,
\* "Physics" / "General" otherwise.
CanonicalPath(scr, key) ==
    IF scr = "s3" THEN [form |-> "s3url", folder |-> key.folder, base |-> key.base]
    ELSE [form |-> "basename", folder |-> 0, base |-> key.base]

C12_PathAndTopicsSet ==
    (Retrying /\ ret.kind = "return") =>
        /\ Len(ret.value) = Len(ret.raw)
        /\ \A n \in 1..Len(ret.value) :
              /\ ret.value[n].image_path = CanonicalPath(script, ret.key)
              /\ OptionalKeys \subseteq ret.value[n].keys
              /\ ret.value[n].topic =
                    IF "topic" \in ret.raw[n].keys THEN ret.raw[n].topic ELSE "Physics"
              /\ ret.value[n].subtopic =
                    IF "subtopic" \in ret.raw[n].keys THEN ret.raw[n].subtopic
                    ELSE "General"

\* two questions, the first with the model's topic, the second without one
C12_Witness ==
    /\ script = "local" /\ ret.kind = "return" /\ Len(ret.value) = 2
    /\ "topic" \in ret.raw[1].keys /\ ret.value[1].topic = "Optics"
    /\ "topic" \notin ret.raw[2].keys /\ ret.value[2].topic = "Physics"
    /\ ret.raw[1].image_path # ret.value[1].image_path

\* the allocator returned from a direct call, its distribution on record
AllocatorCalled == pc = "returned" /\ distribution # <<>> /\ image_count >= 1
UsedDistribution == distribution
Product(k) == image_count * UsedDistribution[k]

\* C13: with {Easy 0.5, Medium 0.3, Hard 0.2}, the distribution of a run
\* without randomization, and 10 images the allocator yields 5 Easy,
\* 3 Medium and 2 Hard; whenever image_count x ratio is a whole number >= 1
\* for every difficulty, each difficulty's count is that product.
C13_WholeProductsAreCounts ==
    /\ (pc = "returned" /\ image_count = 10 /\ ~randomize /\ difficulties # <<>>) =>
          /\ Count(difficulties, "Easy") = 5
          /\ Count(difficulties, "Medium") = 3
          /\ Count(difficulties, "Hard") = 2
    /\ (AllocatorCalled
          /\ \A k \in 1..3 : Product(k) % 100 = 0 /\ Product(k) >= 100) =>
          \A k \in 1..3 : Count(difficulties, Difficulties[k]) = Product(k) \div 100

C13_Witness ==
    /\ AllocatorCalled /\ image_count = 10 /\ ~randomize
    /\ difficulties = Repeat("Easy", 5) \o Repeat("Medium", 3) \o Repeat("Hard", 2)

\* C15: a batch run started with --max-retries N makes at most N attempts
\* for each image.
C15_FlagBoundsAttempts ==
    BatchScript =>
        /\ Len(log) <= cli_max_retries
        /\ ret.kind # "" => ret.attempts <= cli_max_retries

\* C20: when the rounded counts do not sum to image_count the difference
\* is taken from or added to the difficulty with the largest ratio only:
\* every other difficulty keeps its rounded count (stated for image counts
\* of at least the number of difficulties).
C20_OnlyLargestRatioAdjusted ==
    (AllocatorCalled /\ image_count >= Len(Difficulties)) =>
        \A k \in 1..3 :
            k # most_common(UsedDistribution) =>
                Count(difficulties, Difficulties[k])
                    = RawCount(image_count, UsedDistribution[k])

\* C14: for every positive image_count and every non-empty ratio mapping,
\* ratios all zero or not summing to 1 included, the allocator raises
\* nothing and returns: the trimming loop and the padding loop both finish.
C14_AllocatorTerminates ==
    /\ [](image_count >= 1 => pc # "raised")
    /\ (image_count >= 1) ~> (pc = "returned")

\* all ratios zero: one label each, then the padding loop fills the list
C14_Witness ==
    /\ pc = "returned" /\ for_pos > 0 /\ distribution = <<0, 0, 0>>
    /\ image_count = 5 /\ Len(difficulties) = 5


\* C16: with randomization disabled nothing is drawn at random: the batch
\* processes the first max_images entries of the sorted listing in listing
\* order, the S3 batch assigns the difficulties of the first catalog
\* distribution unshuffled, and every prompt has the one fixed phrasing (in
\* the local generator 5 questions, Easy 2 / Medium 2 / Hard 1), so two runs
\* over the same listing build the same prompts in the same order.
FirstOfListing ==
    IF max_images > 0
    THEN SubSeq(listing, 1,
                IF max_images < Len(listing) THEN max_images ELSE Len(listing))
    ELSE IF max_images = 0 THEN listing
    ELSE SubSeq(listing, 1, Max2(0, Len(listing) + max_images))

FixedPhrasing(pr) ==
    /\ pr.phrasing.subject_context = "physics teacher's perspective"
    /\ pr.phrasing.question_style = "conceptual understanding"
    /\ pr.phrasing.analysis_approach = "analyze the provided image"
    /\ script = "local" => pr.question_count = 5 /\ pr.difficulty_dist = <<2, 2, 1>>
    /\ script = "s3" => pr.question_count = 1

LoopEntered == BatchScript /\ (pc = "loop" \/ saved.attempted)

C16_NoRandomnessWhenDisabled ==
    ~randomize =>
        /\ LoopEntered =>
              /\ [n \in 1..Len(pairs) |-> pairs[n].key] = FirstOfListing
              /\ script = "s3" =>
                    \A n \in 1..Len(pairs) :
                        pairs[n].difficulty =
                            AssignUnshuffled(Len(pairs),
                                             global_difficulty_distributions[1])[n]
        /\ prompt # <<>> =>
              /\ FixedPhrasing(prompt)
              /\ \E n \in 1..Len(pairs) :
                    /\ prompt.image_filename = basename(pairs[n].key)
                    /\ prompt.assigned_difficulty = pairs[n].difficulty

C16_Witness ==
    /\ script = "s3" /\ ~direct /\ ~randomize
    /\ max_images = 1 /\ Len(listing) = 2
    /\ pc = "exit" /\ saved.written
    /\ prompt # <<>>


\* C17: in both exam UIs a script run that renders the exam page while the
\* exam is in progress and the time since the start has reached the duration
\* marks the exam finished and records no answer; a finished exam stays
\* finished until the user restarts ("Take Another Exam" / "Start New Exam").
Started == "exam_started" \in DOMAIN ss /\ ss.exam_started

ExamFinished ==
    /\ Started
    /\ IF app = "exam_app" THEN ss.exam_finished ELSE ss.exam_completed

ExamInProgress == Started /\ ~ExamFinished

Elapsed == now - (IF app = "exam_app" THEN ss.start_time ELSE ss.timer_start)

Duration == IF app = "exam_app" THEN ss.exam_duration ELSE TimeLimit(ss)

RecordedAnswers == IF app = "exam_app" THEN ss.user_answers ELSE ss.answers

\* the step is a script run that reaches the exam page
ExamPageRun == now' = now /\ page' = "Take Exam"

C17_TimerAutoSubmits ==
    [][/\ (ExamInProgress /\ Elapsed >= Duration /\ ExamPageRun) =>
              (ExamFinished' /\ RecordedAnswers' = RecordedAnswers)
       /\ (ExamFinished /\ ~ExamFinished') => TakeAnotherExam]_vars

C17_Witness ==
    /\ app = "exam_app" /\ shown.view = "timeup" /\ ExamFinished
    /\ \E n \in 1..Len(ss.user_answers) : ss.user_answers[n] # -1


\* C18: the score shown with the results is the number of questions whose
\* recorded answer equals the question's correct_answer_index; a question
\* without a recorded answer adds nothing, so 0 <= correct <= total, and in
\* the styled UI correct + incorrect + unanswered = total.
ResultsShown == shown.view = "results" /\ ~rerun

ExamQuestions == IF app = "exam_app" THEN qfile ELSE ss.questions

\* question n (counted from 1) has a recorded answer
Answered(n) ==
    IF app = "exam_app"
    THEN n <= Len(ss.user_answers) /\ ss.user_answers[n] # -1
    ELSE (n - 1) \in DOMAIN ss.answers

AnswerOf(n) == IF app = "exam_app" THEN ss.user_answers[n] ELSE ss.answers[n - 1]

C18_ScoreCountsMatches ==
    ResultsShown =>
        /\ shown.correct =
              Cardinality({n \in 1..Len(ExamQuestions) :
                  /\ Answered(n)
                  /\ AnswerOf(n) = ExamQuestions[n].correct_answer_index})
        /\ 0 <= shown.correct /\ shown.correct <= shown.total
        /\ app = "styled" =>
              shown.correct + shown.incorrect + shown.unanswered = shown.total


\* C19: after a click of Generate Questions that produced questions and
\* saved them, the question file holds, in append mode, the questions it
\* held before in their order followed by the new ones, and in replace mode
\* exactly the new ones; when the generation yields no questions the file
\* is as it was.
C19_AppendOrReplace ==
    gen.clicked =>
        /\ (gen.new_questions # <<>> /\ gen.save_ok /\ gen.append_mode) =>
              /\ SubSeq(qfile, 1, Len(gen.before)) = gen.before
              /\ SubSeq(qfile, Len(gen.before) + 1, Len(qfile)) = gen.new_questions
        /\ (gen.new_questions # <<>> /\ gen.save_ok /\ ~gen.append_mode) =>
              qfile = gen.new_questions
        /\ gen.new_questions = <<>> => qfile = gen.before

C19_Witness ==
    /\ gen.clicked /\ gen.append_mode /\ gen.save_ok
    /\ Len(gen.before) = 1 /\ Len(gen.new_questions) = 1
    /\ Len(qfile) = 2 /\ qfile[1] # qfile[2]


\* C21: in a direct call of the generation function, every failed attempt
\* that is not the last one is followed by a sleep of (attempt number) x 2
\* seconds, whichever except clause ended it, and neither a successful
\* attempt nor the last attempt is followed by a sleep.
C21_SleepsBetweenAttempts ==
    (direct /\ pc \in {"loop", "returned"}) =>
        \A n \in 1..Len(sleeps) :
            sleeps[n].wait =
                IF sleeps[n].cls # "ok" /\ n < max_retries THEN n * 2 ELSE 0


\* C22: in a batch run, once the call for an image has ended without a
\* question (it returned None or an exception reached the batch loop), the
\* image_results entry of that image has a failure status and carries an
\* error message.
C22_FailedEntryHasMessage ==
    (~direct /\ script \in {"local", "s3"} /\ ret.kind \in {"none", "raise"}) =>
        LET entry == stats.image_results[basename(ret.key)]
        IN  /\ entry.status \in {"failed", "error"}
            /\ entry.error # ""


\* C23: the prompt a randomized call of generate_randomized_prompt returns
\* asks for 3..7 questions, its difficulty distribution sums to that count
\* with at least one question per difficulty, and the configured variations
\* are as they were before the call.
RandomizedPromptBuilt ==
    direct /\ script = "local" /\ randomize /\ pc = "returned" /\ prompt # <<>>

C23_DistributionMatchesCount ==
    RandomizedPromptBuilt =>
        /\ prompt.question_count \in 3..7
        /\ Sum3(prompt.difficulty_dist) = prompt.question_count
        /\ \A k \in 1..3 : prompt.difficulty_dist[k] >= 1
        /\ variations = difficulty_variations

\* three questions: the scaling of 3/1/1 gives 2/1/1 and the correction
\* lowers its largest entry
C23_Witness ==
    /\ RandomizedPromptBuilt
    /\ prompt.question_count = 3
    /\ prompt.difficulty_dist = <<1, 1, 1>>


\* C24: after a direct call of generate_questions with any question count
\* and any percentages, the per-difficulty counts it stored are
\* non-negative and sum to the question count.
CountsStored == pc = "returned" /\ shown.view = "counts"

C24_CountsNonNegativeAndExact ==
    CountsStored =>
        /\ Sum3(ss.difficulty_distribution) = shown.num_questions
        /\ \A k \in 1..3 : ss.difficulty_distribution[k] >= 0


\* C25: when a direct call of generate_question_from_s3_image has returned,
\* none of the temporary files its attempts created is still on disk.
C25_NoTempFileLeft ==
    (direct /\ script = "s3" /\ pc = "returned" /\ Len(sleeps) > 0) =>
        temp_files = 0


\* C26: when the batch loop of process_s3_images has ended, image_results
\* holds as many entries as images were processed (total_images =
\* successful + failed), and as many of them have status success as
\* `successful` counts.
S3BatchDone == ~direct /\ script = "s3" /\ pc = "loop" /\ i > Len(pairs)

C26_OneEntryPerImage ==
    S3BatchDone =>
        LET entries == {b \in AllBases : stats.image_results[b].status # ""}
        IN  /\ Cardinality(entries) = stats.total_images
            /\ stats.total_images = stats.successful + stats.failed
            /\ Cardinality({b \in entries :
                                stats.image_results[b].status = "success"})
                   = stats.successful


\* C27: in exam_app, whenever the exam page has been rendered for an exam
\* in progress, user_answers has one slot per question of the question
\* file as it is now loaded, and current_question is an index into it.
ExamPageRendered ==
    /\ app = "exam_app" /\ pc = "ui" /\ page = "Take Exam" /\ ~rerun
    /\ shown.view \in {"exam", "error"}
    /\ ExamInProgress

C27_IndexAndSlotsMatchFile ==
    ExamPageRendered =>
        /\ Len(ss.user_answers) = Len(qfile)
        /\ "current_question" \in DOMAIN ss =>
               ss.current_question \in 0..(Len(qfile) - 1)


\* C28: in exam_app, once the results of a finished exam are displayed the
\* exam has its entry in exam_history, and no later step changes the
\* history: not a re-render of the results page, and not Take Another Exam.
ResultsDisplayed ==
    /\ app = "exam_app" /\ pc = "ui_history" /\ Showing("results")
    /\ "exam_history" \in DOMAIN ss

C28_OneEntryPerExam ==
    [][ResultsDisplayed =>
          /\ "exam_history" \in DOMAIN ss'
          /\ ss'.exam_history = ss.exam_history]_vars


\* C29: when the confirmation checkbox is displayed after a click of Submit
\* Exam with unanswered questions, the script run that the tick of the
\* checkbox triggers finishes the exam.
C29_ConfirmedSubmitFinishes ==
    [][(ExamInProgress /\ ConfirmSubmit) => ExamFinished']_vars


\* C30: in both exam UIs the set of questions recorded as answered grows
\* only by a step in which the user selects an option: no other script run
\* (displaying a question, navigating, submitting) adds an answer.
AnsweredQuestions ==
    IF app = "exam_app"
    THEN IF "user_answers" \in DOMAIN ss
         THEN {n \in 1..Len(ss.user_answers) : ss.user_answers[n] # -1}
         ELSE {}
    ELSE IF "answers" \in DOMAIN ss THEN {k + 1 : k \in DOMAIN ss.answers}
         ELSE {}

C30_AnswersOnlyBySelection ==
    [][SelectAnswer \/ AnsweredQuestions' \subseteq AnsweredQuestions]_vars

====
